---- MODULE Spec2Model ----
(***************************************************************************)
(* The realtime voice session controller of SFL-NeuroPersona-Playground    *)
(* (src/components/VoiceInterface.tsx, the VoiceInterface component) as a  *)
(* state machine.  One session is one call of startSession; the handlers   *)
(* of the component (effect, startSession and its resumption after the     *)
(* microphone grant, stopSession, the transport callbacks, onaudioprocess, *)
(* handleServerMessage/playAudio, renderVisualizer, the mute button) are   *)
(* record transformers over the controller's state, and every action of    *)
(* Next commits the result of one handler run.                             *)
(*                                                                         *)
(* Time is counted in whole ticks of an AudioContext clock; a buffer's     *)
(* duration is a whole number of ticks.                                    *)
(***************************************************************************)
EXTENDS Integers, Sequences, FiniteSets

\* ---------------------------------------------------------------- bounds
MaxSessions == 2      \* startSession calls in one run
MaxTime     == 2      \* ticks of time that pass in one run
MaxChunks   == 2      \* audio messages received in one run
MaxPending  == 1      \* frames queued on a session promise that is pending
MaxFrames   == 2      \* frames that onaudioprocess produces in one run
MaxDeltas   == 2      \* transcription messages received in one run
MaxLen      == 2      \* samples in a buffer given to createPcmBlob
MaxBytes    == 3      \* bytes in an array given to uint8ArrayToBase64
MaxCalls    == 2      \* handleGenerate calls in one run

Sessions  == 1..MaxSessions
NoSession == 0
Modes     == {"Collaborative", "Competitive"}
DefaultMode == "Collaborative"
NoMode    == "none"
Sources   == {"ai", "user"}
NoText    == << >>                      \* a transcription field that is absent
Deltas    == { <<"a">>, <<"b">> }       \* transcription texts, as sequences
NoTranscript == [source |-> "none", text |-> NoText]
Calls     == 1..MaxCalls
\* What localStorage holds under the key of the history: no entry, the JSON
\* text of a list, or a text JSON.parse or the mapping of its items rejects.
NoEntry   == [kind |-> "absent", items |-> << >>]
Corrupt   == [kind |-> "corrupt", items |-> << >>]
Durations == {1, 2}
MalformedPayloads == {"notBase64", "oddLength"}
Energies  == {0, 8, 15}   \* mean magnitudes around the thresholds 5 and 10
\* mean magnitudes on and next to the thresholds, and those of the examples
Means     == {0, 5, 6, 8, 10, 11, 15, 20}

VARIABLES
  active,            \* prop active (App.isVoiceActive)
  mode,              \* prop mode (App.voiceMode)
  isMuted,           \* useState isMuted
  status,            \* useState status
  voiceState,        \* useState voiceState
  nSess,             \* number of startSession calls so far
  pc,                \* per session: position of its startSession
  capMuted,          \* per session: isMuted captured by the closure of its render
  outCtx,            \* per session: its 24 kHz output AudioContext
  inCtx,             \* per session: its 16 kHz input AudioContext
  tracks,            \* per session: its microphone tracks
  wired,             \* per session: scriptProcessor connected to the destination
  conn,              \* per session: its transport connection
  audioContextRef, inputNodeRef, streamRef, sessionRef,
  animationFrameRef, inputAnalyserRef, outputAnalyserRef,
  rafLoops,          \* sessions whose redraw loop has a frame request pending
  clock,             \* per session: currentTime of its output context
  nextStartTimeRef,  \* the playback cursor
  sourcesRef,        \* the active source set
  decodeQ,           \* audio messages whose decode is awaited, in receipt order
  sendQ,             \* per session: frames queued on its pending promise
  stopped,           \* history, per session: stopSession ran after it started
  nRecv,             \* history: audio messages received so far
  lastEnd,           \* history, per session: end of its last scheduled buffer
  lastPlay,          \* history: the last playAudio call
  lastSent,          \* history: the last frame handed to sendRealtimeInput
  nCap,              \* history: frames produced by createPcmBlob so far
  dropped,           \* history: a buffer captured while active and unmuted
                     \* was discarded by onaudioprocess
  lastBad,           \* history: the last message whose audio payload made
                     \* handleServerMessage throw, by its number of receipt
  capMode,           \* per session: mode captured by the closure of its render
  connMode,          \* per session: mode its connection was opened with
  transcript,        \* the transcript shown: its source and its text
  transcriptTimeoutRef,  \* id of the last timer set for the transcript
  timers,            \* ids of the timers that are pending
  nTimer,            \* ids handed out by setTimeout so far
  data,              \* codec: the Float32Array given to createPcmBlob, each
                     \* sample as its numerator over SampleGrid
  raw,               \* codec: the Uint8Array given to uint8ArrayToBase64
  blob,              \* codec: the base64 text, a sequence of characters
  bytes,             \* codec: the Uint8Array base64ToUint8Array returned
  float32,           \* codec: the samples decodeAudioData returned, each as
                     \* its numerator over DecodeScale
  cpc,               \* codec: how far the round trip has got
  isGenerating,      \* App: a generation is shown as running
  activeCreation,    \* App: id of the creation shown, 0 for none
  history,           \* App: the creations, newest first
  alerts,            \* App: retry prompts shown so far
  genPc,             \* App: per handleGenerate call, how far it has got
  nGen,              \* App: handleGenerate calls so far
  stored,            \* App: the localStorage entry of the history
  mounted,           \* App: the effects of the first render have run
  lastSave           \* App history: how the last run of the save effect ended

vars == << active, mode, isMuted, status, voiceState, nSess, pc, capMuted,
           outCtx, inCtx, tracks, wired, conn, audioContextRef,
           inputNodeRef, streamRef, sessionRef, animationFrameRef,
           inputAnalyserRef, outputAnalyserRef, rafLoops, clock,
           nextStartTimeRef, sourcesRef, decodeQ, sendQ, stopped, nRecv, lastEnd,
           lastPlay, lastSent, nCap, dropped, lastBad, capMode, connMode,
           transcript, transcriptTimeoutRef, timers, nTimer,
           data, raw, blob, bytes, float32, cpc,
           isGenerating, activeCreation, history, alerts, genPc, nGen,
           stored, mounted, lastSave >>

\* The state of the component, and the state of a run of the codec utilities.
ctlVars == << active, mode, isMuted, status, voiceState, nSess, pc, capMuted,
              outCtx, inCtx, tracks, wired, conn, audioContextRef,
              inputNodeRef, streamRef, sessionRef, animationFrameRef,
              inputAnalyserRef, outputAnalyserRef, rafLoops, clock,
              nextStartTimeRef, sourcesRef, decodeQ, sendQ, stopped, nRecv,
              lastEnd, lastPlay, lastSent, nCap, dropped, lastBad, capMode,
              connMode, transcript, transcriptTimeoutRef, timers, nTimer >>
codecVars == << data, raw, blob, bytes, float32, cpc >>
appVars == << isGenerating, activeCreation, history, alerts, genPc, nGen,
              stored, mounted, lastSave >>

\* The controller's state as one record, the argument of every handler.
Cur ==
  [ active |-> active, mode |-> mode, isMuted |-> isMuted, status |-> status,
    voiceState |-> voiceState, nSess |-> nSess, pc |-> pc,
    capMuted |-> capMuted, outCtx |-> outCtx,
    inCtx |-> inCtx, tracks |-> tracks, wired |-> wired, conn |-> conn,
    audioContextRef |-> audioContextRef, inputNodeRef |-> inputNodeRef,
    streamRef |-> streamRef, sessionRef |-> sessionRef,
    animationFrameRef |-> animationFrameRef,
    inputAnalyserRef |-> inputAnalyserRef,
    outputAnalyserRef |-> outputAnalyserRef, rafLoops |-> rafLoops,
    clock |-> clock, nextStartTimeRef |-> nextStartTimeRef,
    sourcesRef |-> sourcesRef, decodeQ |-> decodeQ, sendQ |-> sendQ,
    stopped |-> stopped, nRecv |-> nRecv, lastEnd |-> lastEnd,
    lastPlay |-> lastPlay, lastSent |-> lastSent, nCap |-> nCap,
    dropped |-> dropped, lastBad |-> lastBad, capMode |-> capMode,
    connMode |-> connMode, transcript |-> transcript,
    transcriptTimeoutRef |-> transcriptTimeoutRef, timers |-> timers,
    nTimer |-> nTimer ]

Commit(r) ==
  /\ active' = r.active /\ mode' = r.mode /\ isMuted' = r.isMuted
  /\ status' = r.status /\ voiceState' = r.voiceState /\ nSess' = r.nSess
  /\ pc' = r.pc /\ capMuted' = r.capMuted
  /\ outCtx' = r.outCtx /\ inCtx' = r.inCtx /\ tracks' = r.tracks
  /\ wired' = r.wired /\ conn' = r.conn
  /\ audioContextRef' = r.audioContextRef /\ inputNodeRef' = r.inputNodeRef
  /\ streamRef' = r.streamRef /\ sessionRef' = r.sessionRef
  /\ animationFrameRef' = r.animationFrameRef
  /\ inputAnalyserRef' = r.inputAnalyserRef
  /\ outputAnalyserRef' = r.outputAnalyserRef /\ rafLoops' = r.rafLoops
  /\ clock' = r.clock /\ nextStartTimeRef' = r.nextStartTimeRef
  /\ sourcesRef' = r.sourcesRef /\ decodeQ' = r.decodeQ /\ sendQ' = r.sendQ
  /\ stopped' = r.stopped
  /\ nRecv' = r.nRecv /\ lastEnd' = r.lastEnd /\ lastPlay' = r.lastPlay
  /\ lastSent' = r.lastSent /\ nCap' = r.nCap /\ dropped' = r.dropped
  /\ lastBad' = r.lastBad /\ capMode' = r.capMode /\ connMode' = r.connMode
  /\ transcript' = r.transcript
  /\ transcriptTimeoutRef' = r.transcriptTimeoutRef
  /\ timers' = r.timers /\ nTimer' = r.nTimer
  /\ UNCHANGED codecVars
  /\ UNCHANGED appVars

NoFrame == [to |-> NoSession, by |-> NoSession, seq |-> 0, muted |-> FALSE,
            afterStop |-> FALSE, failed |-> FALSE]
NoPlay  == [id |-> 0, sess |-> NoSession, start |-> 0, duration |-> 0,
            prevEnd |-> 0, stale |-> FALSE]

\* The state after the component has mounted with active = false: the effect
\* ran stopSession on the freshly constructed refs.
Init ==
  /\ active = FALSE /\ mode = "Collaborative" /\ isMuted = FALSE
  /\ status = "connecting" /\ voiceState = "idle" /\ nSess = 0
  /\ pc = [s \in Sessions |-> "none"]
  /\ capMuted = [s \in Sessions |-> FALSE]
  /\ outCtx = [s \in Sessions |-> "none"]
  /\ inCtx = [s \in Sessions |-> "none"]
  /\ tracks = [s \in Sessions |-> "none"]
  /\ wired = [s \in Sessions |-> FALSE]
  /\ conn = [s \in Sessions |-> "none"]
  /\ audioContextRef = NoSession /\ inputNodeRef = NoSession
  /\ streamRef = NoSession /\ sessionRef = NoSession
  /\ animationFrameRef = NoSession /\ inputAnalyserRef = NoSession
  /\ outputAnalyserRef = NoSession /\ rafLoops = {}
  /\ clock = [s \in Sessions |-> 0]
  /\ nextStartTimeRef = 0 /\ sourcesRef = {} /\ decodeQ = << >>
  /\ sendQ = [s \in Sessions |-> << >>]
  /\ stopped = [s \in Sessions |-> FALSE]
  /\ nRecv = 0 /\ lastEnd = [s \in Sessions |-> 0] /\ lastPlay = NoPlay
  /\ lastSent = NoFrame /\ nCap = 0 /\ dropped = FALSE /\ lastBad = 0
  /\ capMode = [s \in Sessions |-> NoMode]
  /\ connMode = [s \in Sessions |-> NoMode]
  /\ transcript = NoTranscript /\ transcriptTimeoutRef = 0
  /\ timers = {} /\ nTimer = 0
  /\ data = << >> /\ raw = << >> /\ blob = << >> /\ bytes = << >>
  /\ float32 = << >> /\ cpc = "idle"
  /\ isGenerating = FALSE /\ activeCreation = 0 /\ history = << >>
  /\ alerts = 0 /\ genPc = [c \in Calls |-> "none"] /\ nGen = 0
  /\ stored = NoEntry /\ mounted = FALSE /\ lastSave = "none"

\* ------------------------------------------------------------ stopSession
\* Every ref is released only when it is set; the transport connection and
\* the input context have no ref of their own and are not touched, and the
\* playback cursor and the active source set are left as they are.  A closed
\* AudioContext still creates and starts nodes; its clock stands still.
\* A teardown that releases one resource for each call: the stream if there
\* is one, or else the processing graph, or else the output context.
ReleaseRefsOneByOne(r) ==
  IF r.streamRef # NoSession
  THEN [ r EXCEPT
           !.rafLoops = r.rafLoops \ {r.animationFrameRef},
           !.timers = r.timers \ {r.transcriptTimeoutRef},
           !.tracks = [s \in Sessions |->
                         IF s = r.streamRef THEN "stopped" ELSE r.tracks[s]],
           !.streamRef = NoSession,
           !.sessionRef = NoSession ]
  ELSE IF r.inputNodeRef # NoSession
  THEN [ r EXCEPT
           !.wired = [s \in Sessions |-> r.wired[s] /\ s # r.inputNodeRef],
           !.inputNodeRef = NoSession,
           !.sessionRef = NoSession ]
  ELSE [ r EXCEPT
           !.outCtx = [s \in Sessions |->
                         IF s = r.audioContextRef THEN "closed" ELSE r.outCtx[s]],
           !.audioContextRef = NoSession,
           !.sessionRef = NoSession ]

ReleaseRefs(r) ==
  [ r EXCEPT
      !.rafLoops = r.rafLoops \ {r.animationFrameRef},
      !.timers = r.timers \ {r.transcriptTimeoutRef},
      !.tracks = [s \in Sessions |->
                    IF s = r.streamRef THEN "stopped" ELSE r.tracks[s]],
      !.streamRef = NoSession,
      !.wired = [s \in Sessions |-> r.wired[s] /\ s # r.inputNodeRef],
      !.inputNodeRef = NoSession,
      !.outCtx = [s \in Sessions |->
                    IF s = r.audioContextRef THEN "closed" ELSE r.outCtx[s]],
      !.audioContextRef = NoSession,
      !.sessionRef = NoSession ]

\* A stopSession that also puts the mute flag back to unmuted.
StopSessionResetsMute(r) ==
  [ ReleaseRefs(r) EXCEPT
      !.status = "connecting",
      !.voiceState = "idle",
      !.transcript = NoTranscript,
      !.isMuted = FALSE,
      !.stopped = [s \in Sessions |-> s <= r.nSess] ]

StopSession(r) ==
  [ ReleaseRefs(r) EXCEPT
      !.status = "connecting",
      !.voiceState = "idle",
      !.transcript = NoTranscript,
      !.stopped = [s \in Sessions |-> s <= r.nSess] ]

\* ----------------------------------------------------------- startSession
\* The synchronous part, up to the await of getUserMedia.  The closure of
\* the render that ran the effect fixes isMuted for the session.
StartSession(r) ==
  LET s == r.nSess + 1 IN
  [ r EXCEPT
      !.nSess = s,
      !.status = "connecting",
      !.outCtx[s] = "running",
      !.audioContextRef = s,
      !.outputAnalyserRef = s,
      !.capMuted[s] = r.isMuted,
      !.capMode[s] = r.mode,
      !.pc[s] = "awaitMic" ]

\* useEffect([active, mode]): the cleanup of the previous run, then the body.
RunEffect(r) ==
  LET c == StopSession(r) IN
  IF c.active THEN StartSession(c) ELSE StopSession(c)

\* ------------------------------------------------------------ mute button
\* A mute flag that the effect depends on: the change restarts the session.
HandleToggleMuteRestarts(r) ==
  RunEffect([ r EXCEPT !.isMuted = ~r.isMuted ])

\* onClick of the mute button: setIsMuted(!isMuted).  The effect depends on
\* active and mode only and does not run.
HandleToggleMute(r) ==
  [ r EXCEPT !.isMuted = ~r.isMuted ]

\* ------------------------------------------------------- renderVisualizer
SpeakingThreshold == 10
ListeningThreshold == 10
DominantThreshold == 5

\* An activity state that is kept while the output tap stays dominant.
RenderVisualizerSticky(r, l, outEnergy, inEnergy) ==
  IF ~r.active THEN r
  ELSE [ r EXCEPT
           !.voiceState =
              IF outEnergy > SpeakingThreshold THEN "speaking"
              ELSE IF r.voiceState = "speaking" /\ outEnergy > DominantThreshold
              THEN "speaking"
              ELSE IF inEnergy > ListeningThreshold THEN "listening"
              ELSE "idle",
           !.rafLoops = r.rafLoops \cup {l},
           !.animationFrameRef = l ]

\* isOutputDominant and the dataset that is drawn.
IsOutputDominant(outEnergy) == outEnergy > DominantThreshold

ActiveData(outEnergy, inEnergy) ==
  IF IsOutputDominant(outEnergy) THEN "output" ELSE "input"

\* An activity state read from the dominant tap alone.
ActivityOfDominantTap(outEnergy, inEnergy) ==
  IF ActiveData(outEnergy, inEnergy) = "output"
  THEN IF outEnergy > SpeakingThreshold THEN "speaking" ELSE "idle"
  ELSE IF inEnergy > ListeningThreshold THEN "listening" ELSE "idle"

Activity(outEnergy, inEnergy) ==
  IF outEnergy > SpeakingThreshold THEN "speaking"
  ELSE IF inEnergy > ListeningThreshold THEN "listening"
  ELSE "idle"

\* The readings the two analyser taps can give: a tap without an analyser, or
\* without a signal behind it, reads zero.
InputEnergies(r) ==
  IF /\ r.inputAnalyserRef # NoSession
     /\ r.tracks[r.inputAnalyserRef] = "live"
     /\ r.inCtx[r.inputAnalyserRef] = "running"
  THEN Energies ELSE {0}

OutputEnergies(r) ==
  IF /\ r.outputAnalyserRef # NoSession
     /\ r.outCtx[r.outputAnalyserRef] = "running"
     /\ \E src \in r.sourcesRef : src.sess = r.outputAnalyserRef
  THEN Energies ELSE {0}

\* One run of renderVisualizer for the loop started by session l.  Without a
\* canvas (the component renders null when inactive) it returns at once and
\* requests no further frame.
RenderVisualizer(r, l, outEnergy, inEnergy) ==
  IF ~r.active THEN r
  ELSE [ r EXCEPT
           !.voiceState = Activity(outEnergy, inEnergy),
           !.rafLoops = r.rafLoops \cup {l},
           !.animationFrameRef = l ]

\* ------------------------------- startSession, resumed after getUserMedia
WireInput(r, s) ==
  [ r EXCEPT
      !.tracks[s] = "live",
      !.streamRef = s,
      !.inCtx[s] = "running",
      !.inputAnalyserRef = s,
      !.wired[s] = TRUE,
      !.inputNodeRef = s ]

\* A connectLiveSession called without the mode: its parameter's default.
ConnectDefaultMode(r, s) ==
  [ r EXCEPT !.sessionRef = s, !.conn[s] = "connecting", !.pc[s] = "started",
             !.connMode[s] = DefaultMode ]

\* connectLiveSession(callbacks, mode): the mode of the closure goes into the
\* system instruction of the connection as it is.
Connect(r, s) ==
  [ r EXCEPT !.sessionRef = s, !.conn[s] = "connecting", !.pc[s] = "started",
             !.connMode[s] = r.capMode[s] ]

ResumeStart(r, s, outEnergy, inEnergy) ==
  Connect(RenderVisualizer(WireInput(r, s), s, outEnergy, inEnergy), s)

\* A catch block that logs the failure and leaves the status as it is.
FailStartSilent(r, s) ==
  [ r EXCEPT !.pc[s] = "failed" ]

\* getUserMedia rejected: the catch block.
\* A start that goes on to connect after the refusal of the microphone.
FailStartStillConnects(r, s) ==
  [ r EXCEPT !.pc[s] = "failed", !.status = "error",
             !.sessionRef = s, !.conn[s] = "connecting" ]

FailStart(r, s) ==
  [ r EXCEPT !.pc[s] = "failed", !.status = "error" ]

\* ---------------------------------------------------- transport callbacks
\* session.sendRealtimeInput({ media: frame }) on the transport of session t.
Sent(r, t, frame, failed) ==
  [to |-> t, by |-> frame.by, seq |-> frame.seq, muted |-> frame.muted,
   afterStop |-> r.stopped[t] /\ ~frame.stopped, failed |-> failed]

\* The connection of session s opens: onopen runs, the session promise
\* resolves and the frames queued on it are sent in the order they were queued.
ConnOpened(r, s) ==
  [ r EXCEPT
      !.conn[s] = "open",
      !.status = "connected",
      !.lastSent = IF r.sendQ[s] = << >> THEN r.lastSent
                   ELSE Sent(r, s, r.sendQ[s][Len(r.sendQ[s])], FALSE),
      !.sendQ[s] = << >> ]

\* An onerror that opens the connection anew.
ConnErroredReconnects(r, s) ==
  [ r EXCEPT !.conn[s] = "connecting", !.status = "error" ]

\* onerror: the connection is lost, or was never established (the session
\* promise then stays pending for good).
ConnErrored(r, s) ==
  [ r EXCEPT
      !.conn[s] = IF r.conn[s] = "connecting" THEN "failed" ELSE "closed",
      !.status = "error" ]

\* onclose: logs, changes no state of the component.
ConnClosed(r, s) ==
  [ r EXCEPT !.conn[s] = "closed" ]

\* --------------------------------------------------------- onaudioprocess
\* The handler of session s's scriptProcessor.  It reads the isMuted of its
\* closure and the session promise that sessionRef holds when it runs.
OnAudioProcess(r, s) ==
  LET t     == r.sessionRef
      frame == [seq |-> r.nCap + 1, by |-> s,
                muted |-> r.isMuted,   \* the mute flag when it was captured
                stopped |-> t # NoSession /\ r.stopped[t]]
      c     == [ r EXCEPT !.nCap = r.nCap + 1 ]
  IN  IF r.capMuted[s]
      THEN [ r EXCEPT !.dropped = \/ r.dropped
                                  \/ (r.active /\ ~r.isMuted /\ s = r.inputNodeRef) ]
      ELSE IF t = NoSession THEN c
      ELSE IF r.conn[t] \in {"connecting", "failed"}
           THEN [ c EXCEPT !.sendQ[t] = Append(r.sendQ[t], frame) ]
      ELSE IF r.conn[t] = "open"
           THEN [ c EXCEPT !.lastSent = Sent(r, t, frame, FALSE) ]
      ELSE [ c EXCEPT !.lastSent = Sent(r, t, frame, TRUE) ]

\* ------------------------------------------- handleServerMessage, playAudio
\* source.start(start), the cursor left at next, the source added to the set.
Schedule(r, s, start, next, duration) ==
  [ r EXCEPT
      !.nextStartTimeRef = next,
      !.sourcesRef = r.sourcesRef \cup
                       {[sess |-> s, start |-> start, end |-> start + duration]},
      !.lastEnd[s] = start + duration,
      !.lastPlay = [id |-> r.lastPlay.id, sess |-> s, start |-> start,
                    duration |-> duration, prevEnd |-> r.lastEnd[s],
                    stale |-> r.stopped[s]] ]

\* A playAudio that sets the cursor from the clock alone.
PlayAudioCursorFromNow(r, s, duration) ==
  LET now   == r.clock[s]
      start == IF r.nextStartTimeRef < now THEN now ELSE r.nextStartTimeRef
  IN  Schedule(r, s, start, now + duration, duration)

\* A playAudio that starts every buffer at once.
PlayAudioStartsNow(r, s, duration) ==
  LET now   == r.clock[s]
      start == IF r.nextStartTimeRef < now THEN now ELSE r.nextStartTimeRef
  IN  Schedule(r, s, now, start + duration, duration)

\* A playAudio without the catch-up of a cursor that lies in the past.
PlayAudioNoCatchUp(r, s, duration) ==
  Schedule(r, s, r.nextStartTimeRef, r.nextStartTimeRef + duration, duration)

\* A playAudio that leaves one tick of silence after every buffer.
PlayAudioPadded(r, s, duration) ==
  LET now   == r.clock[s]
      start == IF r.nextStartTimeRef < now THEN now ELSE r.nextStartTimeRef
  IN  Schedule(r, s, start, start + duration + 1, duration)

PlayAudio(r, s, duration) ==
  LET now   == r.clock[s]
      start == IF r.nextStartTimeRef < now THEN now ELSE r.nextStartTimeRef
  IN  Schedule(r, s, start, start + duration, duration)

\* An audio message on session s's connection: the decode is awaited.
HandleServerMessage(r, s, duration) ==
  [ r EXCEPT
      !.decodeQ = Append(r.decodeQ, [id |-> r.nRecv + 1, sess |-> s,
                                     duration |-> duration]),
      !.nRecv = r.nRecv + 1 ]

\* ------------------------------------------------------------- transcript
\* A transcription handler that looks at the input transcription first.
HandleTranscriptInputFirst(r, outputText, inputText) ==
  IF inputText # NoText
  THEN [ r EXCEPT !.transcript =
           [source |-> "user",
            text |-> (IF r.transcript.source = "user"
                      THEN r.transcript.text ELSE NoText) \o inputText] ]
  ELSE IF outputText # NoText
  THEN [ r EXCEPT !.transcript =
           [source |-> "ai",
            text |-> (IF r.transcript.source = "ai"
                      THEN r.transcript.text ELSE NoText) \o outputText] ]
  ELSE r

\* A transcription handler that appends every delta to the text it finds.
HandleTranscriptAlwaysAppends(r, outputText, inputText) ==
  IF outputText # NoText
  THEN [ r EXCEPT !.transcript =
           [source |-> "ai", text |-> r.transcript.text \o outputText] ]
  ELSE IF inputText # NoText
  THEN [ r EXCEPT !.transcript =
           [source |-> "user", text |-> r.transcript.text \o inputText] ]
  ELSE r

\* The transcription part of handleServerMessage: the output transcription
\* is looked at first, the input transcription only without it.
HandleTranscript(r, outputText, inputText) ==
  IF outputText # NoText
  THEN [ r EXCEPT !.transcript =
           [source |-> "ai",
            text |-> (IF r.transcript.source = "ai"
                      THEN r.transcript.text ELSE NoText) \o outputText] ]
  ELSE IF inputText # NoText
  THEN [ r EXCEPT !.transcript =
           [source |-> "user",
            text |-> (IF r.transcript.source = "user"
                      THEN r.transcript.text ELSE NoText) \o inputText] ]
  ELSE r

\* An effect that sets its timer and leaves the one before it pending.
TranscriptEffectKeepsTimer(r) ==
  IF r.transcript = NoTranscript THEN r
  ELSE [ r EXCEPT
           !.timers = r.timers \cup {r.nTimer + 1},
           !.transcriptTimeoutRef = r.nTimer + 1,
           !.nTimer = r.nTimer + 1 ]

\* useEffect([transcript]), run for the render that follows a change of the
\* transcript: clearTimeout of the timer in the ref, then a new setTimeout.
TranscriptEffect(r) ==
  IF r.transcript = NoTranscript THEN r
  ELSE [ r EXCEPT
           !.timers = (r.timers \ {r.transcriptTimeoutRef}) \cup {r.nTimer + 1},
           !.transcriptTimeoutRef = r.nTimer + 1,
           !.nTimer = r.nTimer + 1 ]

\* The callback of timer id: setTranscript(null); the effect that follows
\* finds no transcript and sets no timer.
TimeoutFired(r, id) ==
  TranscriptEffect([ r EXCEPT !.timers = r.timers \ {id},
                              !.transcript = NoTranscript ])

\* A handleServerMessage that takes a payload it cannot decode for a failure
\* of the session.
HandleMalformedFatal(r, s, payload) ==
  [ r EXCEPT !.nRecv = r.nRecv + 1, !.lastBad = r.nRecv + 1,
             !.status = "error" ]

\* An audio message whose payload is not base64 (atob throws) or holds an odd
\* number of bytes (the Int16Array constructor throws): handleServerMessage
\* throws before playAudio, its promise rejects and nobody awaits it.
HandleMalformed(r, s, payload) ==
  [ r EXCEPT !.nRecv = r.nRecv + 1, !.lastBad = r.nRecv + 1 ]

\* A resolution of awaited decodes that takes the newest first.
DecodeResolvedNewestFirst(r) ==
  LET m == r.decodeQ[Len(r.decodeQ)]
      c == PlayAudio([ r EXCEPT !.decodeQ = SubSeq(r.decodeQ, 1, Len(r.decodeQ) - 1) ],
                     m.sess, m.duration)
  IN  [ c EXCEPT !.lastPlay.id = m.id ]

\* The oldest awaited decode completes and its buffer is played.
DecodeResolved(r) ==
  LET m == Head(r.decodeQ)
      c == PlayAudio([ r EXCEPT !.decodeQ = Tail(r.decodeQ) ], m.sess, m.duration)
  IN  [ c EXCEPT !.lastPlay.id = m.id ]

\* source.onended
SourceEnded(r, src) ==
  [ r EXCEPT !.sourcesRef = r.sourcesRef \ {src} ]

\* ------------------------------------------------------------------ codec
\* A sample is a float32 that is a multiple of 1/SampleGrid; it is held as
\* its numerator.  Products of such a sample and a 16-bit scale are exact in
\* the doubles the code computes with.
SampleGrid  == 65536
NegScale    == 32768      \* 0x8000
PosScale    == 32767      \* 0x7FFF
DecodeScale == 32768      \* 32768.0
Int16Span   == 65536      \* values of an Int16Array element
ByteSpan    == 256        \* values of a Uint8Array element

Samples ==
  { -(2 * SampleGrid), -SampleGrid - 1, -SampleGrid, -SampleGrid + 1,
    -(SampleGrid \div 2), -3, -1, 0, 1, 3, SampleGrid \div 2,
    SampleGrid - 1, SampleGrid, SampleGrid + 1, 2 * SampleGrid }

ByteValues == {0, 1, 127, 128, 255}

RECURSIVE SeqsUpTo(_, _)
SeqsUpTo(S, n) ==
  IF n = 0 THEN { << >> }
  ELSE LET shorter == SeqsUpTo(S, n - 1)
       IN  shorter \cup { Append(q, x) : q \in shorter, x \in S }

\* Math.max(-1, Math.min(1, x)) on numerators.
Clamp(x) ==
  LET m == IF x < SampleGrid THEN x ELSE SampleGrid
  IN  IF m > -SampleGrid THEN m ELSE -SampleGrid

\* The integer part of a / b, toward zero, for b > 0.
Truncate(a, b) ==
  IF a >= 0 \/ a % b = 0 THEN a \div b ELSE (a \div b) + 1

\* A number stored into an Int16Array element: truncated, then modulo 2^16.
ToInt16(v) ==
  LET m == v % Int16Span
  IN  IF m >= Int16Span \div 2 THEN m - Int16Span ELSE m

\* An encoding that scales both halves by 0x8000.
EncodeSampleSymmetric(x) ==
  LET s == Clamp(x) IN ToInt16(Truncate(s * NegScale, SampleGrid))

\* int16[i] = s < 0 ? s * 0x8000 : s * 0x7FFF, with s the clamped sample.
EncodeSample(x) ==
  LET s == Clamp(x)
  IN  ToInt16(Truncate(s * (IF s < 0 THEN NegScale ELSE PosScale), SampleGrid))

\* new Uint8Array(int16.buffer): two bytes for each element, low byte first.
Int16Bytes(int16) ==
  [ i \in 1..(2 * Len(int16)) |->
      LET u == int16[(i + 1) \div 2] % Int16Span
      IN  IF i % 2 = 1 THEN u % ByteSpan ELSE u \div ByteSpan ]

\* new Int16Array(data.buffer), for an even number of bytes.
Int16View(b) ==
  [ i \in 1..(Len(b) \div 2) |-> ToInt16(b[(2 * i) - 1] + (ByteSpan * b[2 * i])) ]

\* The 64 digits of base64, and the digit a character stands for.
Alphabet ==
  << "A", "B", "C", "D", "E", "F", "G", "H", "I", "J", "K", "L", "M",
     "N", "O", "P", "Q", "R", "S", "T", "U", "V", "W", "X", "Y", "Z",
     "a", "b", "c", "d", "e", "f", "g", "h", "i", "j", "k", "l", "m",
     "n", "o", "p", "q", "r", "s", "t", "u", "v", "w", "x", "y", "z",
     "0", "1", "2", "3", "4", "5", "6", "7", "8", "9", "+", "/" >>

Digit(c) == (CHOOSE i \in 1..Len(Alphabet) : Alphabet[i] = c) - 1

\* window.btoa of a binary string, given as its character codes.
RECURSIVE Btoa(_)
Btoa(binary) ==
  IF Len(binary) = 0 THEN << >>
  ELSE LET a == binary[1]
           b == IF Len(binary) > 1 THEN binary[2] ELSE 0
           c == IF Len(binary) > 2 THEN binary[3] ELSE 0
           d1 == Alphabet[(a \div 4) + 1]
           d2 == Alphabet[((a % 4) * 16) + (b \div 16) + 1]
           d3 == Alphabet[((b % 16) * 4) + (c \div 64) + 1]
           d4 == Alphabet[(c % 64) + 1]
       IN  IF Len(binary) = 1 THEN << d1, d2, "=", "=" >>
           ELSE IF Len(binary) = 2 THEN << d1, d2, d3, "=" >>
           ELSE << d1, d2, d3, d4 >> \o Btoa(SubSeq(binary, 4, Len(binary)))

\* window.atob of a padded base64 text: the character codes of the result.
RECURSIVE Atob(_)
Atob(base64) ==
  IF Len(base64) = 0 THEN << >>
  ELSE LET n1 == Digit(base64[1])
           n2 == Digit(base64[2])
       IN  IF base64[3] = "="
           THEN << (n1 * 4) + (n2 \div 16) >>
           ELSE LET n3 == Digit(base64[3])
                IN  IF base64[4] = "="
                    THEN << (n1 * 4) + (n2 \div 16),
                            ((n2 % 16) * 16) + (n3 \div 4) >>
                    ELSE << (n1 * 4) + (n2 \div 16),
                            ((n2 % 16) * 16) + (n3 \div 4),
                            ((n3 % 4) * 64) + Digit(base64[4]) >>
                         \o Atob(SubSeq(base64, 5, Len(base64)))

\* A conversion to text that keeps seven bits of each byte.
Uint8ArrayToBase64SevenBit(b) ==
  Btoa([ i \in 1..Len(b) |-> b[i] % 128 ])

\* uint8ArrayToBase64: String.fromCharCode of each byte, then btoa.
Uint8ArrayToBase64(b) ==
  Btoa([ i \in 1..Len(b) |-> b[i] % Int16Span ])

\* base64ToUint8Array: atob, then charCodeAt of each character into a
\* Uint8Array.
Base64ToUint8Array(base64) ==
  LET binary == Atob(base64)
  IN  [ i \in 1..Len(binary) |-> binary[i] % ByteSpan ]

\* The samples of createPcmBlob's Int16Array.
PcmSamples(d) == [ i \in 1..Len(d) |-> EncodeSample(d[i]) ]

\* decodeAudioData: data16[i] / 32768.0, held as the numerator data16[i].
DecodeAudioData(b) == Int16View(b)

\* -------------------------------------------------------------------- App
AppCur ==
  [ isGenerating |-> isGenerating, activeCreation |-> activeCreation,
    history |-> history, alerts |-> alerts, genPc |-> genPc, nGen |-> nGen,
    stored |-> stored, mounted |-> mounted, lastSave |-> lastSave ]

AppCommit(a) ==
  /\ isGenerating' = a.isGenerating /\ activeCreation' = a.activeCreation
  /\ history' = a.history /\ alerts' = a.alerts /\ genPc' = a.genPc
  /\ nGen' = a.nGen /\ stored' = a.stored /\ mounted' = a.mounted
  /\ lastSave' = a.lastSave
  /\ UNCHANGED << ctlVars, codecVars >>

\* A creation in memory, with its timestamp a Date.
Creation(id) == [id |-> id, timestamp |-> "Date"]

\* JSON.stringify(history): a Date becomes its ISO text.
Stringify(h) ==
  [ i \in 1..Len(h) |-> [id |-> h[i].id, timestamp |-> "text"] ]

\* JSON.parse and the mapping of the load effect: the text becomes a Date.
Revive(items) ==
  [ i \in 1..Len(items) |-> [id |-> items[i].id, timestamp |-> "Date"] ]

\* Entries an earlier run of the application can have left: 0 is the id of a
\* creation of that run.
EarlierEntries ==
  { Corrupt,
    [kind |-> "list", items |-> << >>],
    [kind |-> "list", items |-> Stringify(<< Creation(0) >>)] }

\* A save effect without the test of the length.
SaveEffectUnguarded(a, ok) ==
  IF ok
  THEN [ a EXCEPT !.stored = [kind |-> "list", items |-> Stringify(a.history)],
                  !.lastSave = "ok" ]
  ELSE [ a EXCEPT !.lastSave = "failed" ]

\* useEffect([history]): setItem for a history that is not empty; a setItem
\* that throws is caught and logged.
SaveEffect(a, ok) ==
  IF Len(a.history) > 0
  THEN IF ok
       THEN [ a EXCEPT
                !.stored = [kind |-> "list", items |-> Stringify(a.history)],
                !.lastSave = "ok" ]
       ELSE [ a EXCEPT !.lastSave = "failed" ]
  ELSE [ a EXCEPT !.lastSave = "skipped" ]

\* The load effect for the entry it read: setHistory of the revived list; no
\* entry, or an entry that cannot be parsed, leaves the history as it is.
LoadEffect(a, saved) ==
  IF saved.kind = "list" THEN [ a EXCEPT !.history = Revive(saved.items) ]
  ELSE a

\* The effects of the first render, in their order: the load effect reads
\* the entry, the save effect runs for the initial history, the history the
\* load effect set is rendered and the save effect runs for it.
MountEffects(a, ok1, ok2) ==
  LET saved  == a.stored
      first  == SaveEffect(a, ok1)
      loaded == LoadEffect(first, saved)
  IN  [ (IF saved.kind = "list" THEN SaveEffect(loaded, ok2) ELSE loaded)
          EXCEPT !.mounted = TRUE ]

\* handleGenerate up to its first await.
HandleGenerate(a, file) ==
  [ a EXCEPT
      !.isGenerating = TRUE,
      !.activeCreation = 0,
      !.nGen = a.nGen + 1,
      !.genPc[a.nGen + 1] = IF file THEN "file" ELSE "remote" ]

\* fileToBase64 resolved: runMultiAgentSimulation is awaited.
FileConverted(a, c) == [ a EXCEPT !.genPc[c] = "remote" ]

\* A failure handled without the finally block.
GenerateFailedNoFinally(a, c) ==
  [ a EXCEPT !.alerts = a.alerts + 1, !.genPc[c] = "failed" ]

\* An awaited promise rejected: the catch block, then the finally block.
GenerateFailed(a, c) ==
  [ a EXCEPT !.alerts = a.alerts + 1, !.isGenerating = FALSE,
             !.genPc[c] = "failed" ]

\* runMultiAgentSimulation resolved, with agent data or with a value that is
\* falsy; then the finally block, and the save effect for a new history.
GenerateResolved(a, c, agentData, ok) ==
  IF agentData
  THEN SaveEffect([ a EXCEPT !.activeCreation = c,
                             !.history = << Creation(c) >> \o a.history,
                             !.isGenerating = FALSE,
                             !.genPc[c] = "done" ], ok)
  ELSE [ a EXCEPT !.isGenerating = FALSE, !.genPc[c] = "done" ]

HandleReset(a) == [ a EXCEPT !.activeCreation = 0, !.isGenerating = FALSE ]

HandleSelectCreation(a, id) == [ a EXCEPT !.activeCreation = id ]

\* ---------------------------------------------------------------- actions
\* App.handleVoiceStart(m); the effect runs when active or mode changed.
VoiceStart ==
  \E m \in Modes :
    /\ ~active \/ mode # m
    /\ nSess < MaxSessions
    /\ Commit(RunEffect([ Cur EXCEPT !.mode = m, !.active = TRUE ]))

\* App.handleVoiceStart(m) when no session has been started before.
FirstVoiceStart ==
  /\ nSess = 0
  /\ VoiceStart

\* The End Session button: onClose.
Close ==
  /\ active
  /\ Commit(RunEffect([ Cur EXCEPT !.active = FALSE ]))

\* The mute button, rendered while active.
ToggleMute ==
  /\ active
  /\ Commit(HandleToggleMute(Cur))

MicGranted ==
  \E s \in Sessions, o \in OutputEnergies(Cur) :
    /\ pc[s] = "awaitMic"
    /\ \E i \in InputEnergies(WireInput(Cur, s)) :
         Commit(ResumeStart(Cur, s, o, i))

MicDenied ==
  \E s \in Sessions :
    /\ pc[s] = "awaitMic"
    /\ Commit(FailStart(Cur, s))

ConnOpen ==
  \E s \in Sessions :
    /\ conn[s] = "connecting"
    /\ Commit(ConnOpened(Cur, s))

ConnError ==
  \E s \in Sessions :
    /\ conn[s] \in {"connecting", "open"}
    /\ Commit(ConnErrored(Cur, s))

ConnClose ==
  \E s \in Sessions :
    /\ conn[s] = "open"
    /\ Commit(ConnClosed(Cur, s))

AudioProcess ==
  \E s \in Sessions :
    /\ wired[s] /\ inCtx[s] = "running"
    /\ ~capMuted[s] => nCap < MaxFrames
    /\ (/\ sessionRef # NoSession
        /\ conn[sessionRef] \in {"connecting", "failed"}
        /\ ~capMuted[s])
         => Len(sendQ[sessionRef]) < MaxPending
    /\ Commit(OnAudioProcess(Cur, s))

ServerAudio ==
  \E s \in Sessions, d \in Durations :
    /\ conn[s] = "open"
    /\ nRecv < MaxChunks
    /\ Commit(HandleServerMessage(Cur, s, d))

ServerMalformed ==
  \E s \in Sessions, payload \in MalformedPayloads :
    /\ conn[s] = "open"
    /\ nRecv < MaxChunks
    /\ Commit(HandleMalformed(Cur, s, payload))

\* A message with transcription and without audio on an open connection.
ServerTranscript ==
  \E s \in Sessions, outputText \in Deltas \cup {NoText},
     inputText \in Deltas \cup {NoText} :
    /\ conn[s] = "open"
    /\ outputText # NoText \/ inputText # NoText
    /\ nTimer < MaxDeltas
    /\ Commit(TranscriptEffect(HandleTranscript(Cur, outputText, inputText)))

\* A pending timer of the transcript expires.
TranscriptTimeout ==
  \E id \in timers : Commit(TimeoutFired(Cur, id))

\* createPcmBlob(data) for a buffer of samples.
CreatePcmBlob ==
  \E d \in SeqsUpTo(Samples, MaxLen) :
    /\ cpc = "idle" /\ d # << >>
    /\ data' = d
    /\ raw' = Int16Bytes(PcmSamples(d))
    /\ blob' = Uint8ArrayToBase64(Int16Bytes(PcmSamples(d)))
    /\ cpc' = "encoded"
    /\ UNCHANGED << bytes, float32 >>
    /\ UNCHANGED << ctlVars, appVars >>

\* uint8ArrayToBase64(b) for an array of bytes.
ToBase64 ==
  \E b \in SeqsUpTo(ByteValues, MaxBytes) :
    /\ cpc = "idle"
    /\ raw' = b
    /\ blob' = Uint8ArrayToBase64(b)
    /\ cpc' = "encoded"
    /\ UNCHANGED << data, bytes, float32 >>
    /\ UNCHANGED << ctlVars, appVars >>

\* base64ToUint8Array of the text.
FromBase64 ==
  /\ cpc = "encoded"
  /\ bytes' = Base64ToUint8Array(blob)
  /\ cpc' = "received"
  /\ UNCHANGED << data, raw, blob, float32 >>
  /\ UNCHANGED << ctlVars, appVars >>

\* decodeAudioData of the bytes of a buffer of samples.
DecodeAudio ==
  /\ cpc = "received" /\ data # << >>
  /\ float32' = DecodeAudioData(bytes)
  /\ cpc' = "decoded"
  /\ UNCHANGED << data, raw, blob, bytes >>
  /\ UNCHANGED << ctlVars, appVars >>

\* An earlier run of the application left an entry in localStorage.
EarlierRun ==
  \E e \in EarlierEntries :
    /\ ~mounted /\ stored = NoEntry
    /\ AppCommit([ AppCur EXCEPT !.stored = e ])

\* The App mounts: the effects of its first render.
Mount ==
  \E ok1 \in BOOLEAN, ok2 \in BOOLEAN :
    /\ ~mounted
    /\ AppCommit(MountEffects(AppCur, ok1, ok2))

\* The form is submitted, with or without a file.
Generate ==
  \E file \in BOOLEAN :
    /\ mounted /\ ~isGenerating
    /\ nGen < MaxCalls
    /\ AppCommit(HandleGenerate(AppCur, file))

FileDone ==
  \E c \in Calls :
    /\ genPc[c] = "file"
    /\ AppCommit(FileConverted(AppCur, c))

\* fileToBase64 rejects.
FileError ==
  \E c \in Calls :
    /\ genPc[c] = "file"
    /\ AppCommit(GenerateFailed(AppCur, c))

SimulationDone ==
  \E c \in Calls, agentData \in BOOLEAN, ok \in BOOLEAN :
    /\ genPc[c] = "remote"
    /\ AppCommit(GenerateResolved(AppCur, c, agentData, ok))

\* runMultiAgentSimulation rejects: the remote call failed or its text is
\* not JSON.
SimulationError ==
  \E c \in Calls :
    /\ genPc[c] = "remote"
    /\ AppCommit(GenerateFailed(AppCur, c))

\* The close button of the preview, shown while focused.
Reset ==
  /\ mounted /\ (isGenerating \/ activeCreation # 0)
  /\ AppCommit(HandleReset(AppCur))

\* A creation of the history list is selected.
SelectCreation ==
  \E i \in 1..Len(history) :
    /\ mounted /\ ~isGenerating /\ activeCreation # history[i].id
    /\ AppCommit(HandleSelectCreation(AppCur, history[i].id))

DecodeDone ==
  /\ decodeQ # << >>
  /\ Commit(DecodeResolved(Cur))

OnEnded ==
  \E src \in sourcesRef :
    /\ outCtx[src.sess] = "running"
    /\ clock[src.sess] >= src.end
    /\ Commit(SourceEnded(Cur, src))

\* requestAnimationFrame fires for a pending loop.
RafTick ==
  \E l \in rafLoops, o \in OutputEnergies(Cur), i \in InputEnergies(Cur) :
    Commit(RenderVisualizer([ Cur EXCEPT !.rafLoops = rafLoops \ {l} ], l, o, i))

RECURSIVE Elapsed(_, _)
Elapsed(c, n) == IF n = 0 THEN 0 ELSE c[n] + Elapsed(c, n - 1)

\* The clock of a running output context advances.
Tick ==
  \E s \in Sessions :
    /\ outCtx[s] = "running"
    /\ Elapsed(clock, MaxSessions) < MaxTime
    /\ Commit([ Cur EXCEPT !.clock[s] = clock[s] + 1 ])

\* The session lifecycle: start, stop and restart, the microphone grant or
\* refusal, the transport's open, error and close, mute and the redraw loop.
Next ==
  \/ VoiceStart \/ Close \/ ToggleMute \/ MicGranted \/ MicDenied
  \/ ConnOpen \/ ConnError \/ ConnClose \/ RafTick

Spec == Init /\ [][Next]_vars

\* The capture pipeline: sessions that start, connect, lose their connection
\* and stop, the frames their capture graphs produce, mute and the redraw loop.
NextCapture ==
  \/ VoiceStart \/ Close \/ ToggleMute \/ MicGranted \/ ConnOpen
  \/ ConnError \/ ConnClose \/ AudioProcess \/ RafTick

SpecCapture == Init /\ [][NextCapture]_vars

\* The playback scheduler: sessions that start, connect and are stopped by a
\* restart (a mode change while active runs stopSession, then startSession),
\* the audio messages they receive and the clocks of their output contexts.
NextPlayback ==
  \/ VoiceStart \/ MicGranted \/ ConnOpen \/ ServerAudio
  \/ DecodeDone \/ OnEnded \/ Tick

SpecPlayback == Init /\ [][NextPlayback]_vars

\* The scheduler within one session: the session starts and connects, audio
\* messages arrive in bursts or late, their decodes complete, sources end and
\* the clock advances.
NextSchedule ==
  \/ FirstVoiceStart \/ MicGranted \/ ConnOpen \/ ServerAudio
  \/ DecodeDone \/ OnEnded \/ Tick

SpecSchedule == Init /\ [][NextSchedule]_vars

\* The handling of server messages: sessions that start, connect and are
\* stopped by a restart, the audio messages they receive, decodable or not,
\* and the completion of the awaited decodes.
NextDecode ==
  \/ VoiceStart \/ MicGranted \/ ConnOpen \/ ServerAudio \/ ServerMalformed
  \/ DecodeDone

SpecDecode == Init /\ [][NextDecode]_vars

\* The redraw loop over both taps: sessions that start and connect, audio
\* that is received and played, and the frames of the visualizer.
NextRender ==
  \/ VoiceStart \/ MicGranted \/ ConnOpen \/ ServerAudio \/ DecodeDone
  \/ RafTick

SpecRender == Init /\ [][NextRender]_vars

\* The transcript: sessions that start, connect, are restarted and closed,
\* the transcription messages they receive and the expiry of the timer.
NextTranscript ==
  \/ VoiceStart \/ Close \/ MicGranted \/ ConnOpen \/ ServerTranscript
  \/ TranscriptTimeout

SpecTranscript == Init /\ [][NextTranscript]_vars

\* The codec utilities: a buffer of samples or an array of bytes is encoded
\* to text, the text is decoded to bytes, and the bytes to samples.
NextCodec ==
  \/ CreatePcmBlob \/ ToBase64 \/ FromBase64 \/ DecodeAudio

SpecCodec == Init /\ [][NextCodec]_vars

\* The App: the entry an earlier run left, the mount, generations that
\* succeed or fail, the preview's reset and the selection of a creation.
NextApp ==
  \/ EarlierRun \/ Mount \/ Generate \/ FileDone \/ FileError
  \/ SimulationDone \/ SimulationError \/ Reset \/ SelectCreation

SpecApp == Init /\ [][NextApp]_vars

\* The acquisition of the microphone: starts and restarts, the grant or the
\* refusal, the opening of the connection and the capture of frames.
NextAcquire ==
  \/ VoiceStart \/ MicGranted \/ MicDenied \/ ConnOpen \/ AudioProcess

SpecAcquire == Init /\ [][NextAcquire]_vars

\* Mute within one session that connects, plays audio and shows transcripts.
NextMute ==
  \/ FirstVoiceStart \/ MicGranted \/ ConnOpen \/ ToggleMute
  \/ ServerAudio \/ DecodeDone \/ ServerTranscript

SpecMute == Init /\ [][NextMute]_vars

\* ================================================================== claims
Max(a, b) == IF a < b THEN b ELSE a

\* C1: once stopSession has run for a session, no server message of that
\* session reaches playAudio: the playback cursor and the active source set
\* are never changed by a playAudio call made for a stopped session.
C1_NoPlaybackAfterStop == lastPlay.stale = FALSE

\* C2: at most one transport connection of the controller is open at a time.
C2_AtMostOneOpenConnection ==
  Cardinality({s \in Sessions : conn[s] = "open"}) <= 1

\* What stopSession is to leave behind: no redraw frame pending, no live
\* microphone track, no wired capture graph, no running audio context of
\* either rate, no transport connection open or being opened.
Released(r) ==
  /\ r.rafLoops = {}
  /\ \A s \in Sessions :
       /\ r.tracks[s] # "live"
       /\ ~r.wired[s]
       /\ r.outCtx[s] # "running"
       /\ r.inCtx[s] # "running"
       /\ r.conn[s] \notin {"connecting", "open"}

\* C3: in whatever state stopSession runs, when it returns the redraw loop is
\* cancelled, every microphone track is stopped, the capture graph and both
\* audio contexts are closed and the transport connection is closed.
C3_StopReleasesEverything == Released(StopSession(Cur))

\* C4: when the microphone grant of a session resolves after stopSession has
\* run for it, the resumed startSession discards the grant: it holds no
\* stream, wires no capture graph, requests no redraw frame and opens no
\* transport connection.
C4_GrantAfterStopDiscarded ==
  [][ \A s \in Sessions :
        (stopped[s] /\ pc[s] = "awaitMic" /\ pc'[s] # "awaitMic")
          => /\ tracks'[s] # "live"
             /\ ~wired'[s]
             /\ rafLoops' \subseteq rafLoops
             /\ conn'[s] = "none"
             /\ sessionRef' = sessionRef
             /\ streamRef' = streamRef ]_vars

\* C5: no frame captured while the session is muted is handed to
\* sendRealtimeInput, at whatever time the mute was toggled.
C5_MutedFramesNotForwarded == lastSent.muted = FALSE

\* C6: the mute flag changes only in a step of the mute toggle: starting,
\* stopping and restarting a session, the microphone grant or refusal, and
\* the transport's open, error and close all leave isMuted unchanged.
C6_MuteOnlyByToggle == [][ isMuted' # isMuted => ToggleMute ]_vars

\* A session restarted after muting, following a transport error of the
\* earlier session, is connected and still muted.
C6_Witness ==
  /\ isMuted /\ nSess = MaxSessions /\ capMuted[nSess]
  /\ conn[nSess] = "open" /\ conn[1] = "closed" /\ status = "connected"

\* C7: within a session (in every step that is not a stop or start) the
\* playback cursor never decreases, whatever the clock reads when a chunk is
\* played and whatever the chunk's duration.
C7_CursorMonotone ==
  [][ (active' = active /\ mode' = mode /\ nSess' = nSess)
        => nextStartTimeRef' >= nextStartTimeRef ]_vars

\* The cursor has been advanced by a chunk that arrived late, after an
\* earlier buffer of the same session had finished.
C7_Witness ==
  /\ lastPlay.prevEnd > 0
  /\ lastPlay.start > lastPlay.prevEnd
  /\ nextStartTimeRef > lastPlay.start

\* C8: a buffer starts no earlier than the end of the buffer scheduled before
\* it in the same session: consecutive playback intervals do not overlap.
C8_NoOverlap ==
  lastPlay.sess # NoSession => lastPlay.start >= lastPlay.prevEnd

\* A second buffer of a session was scheduled while the clock was still
\* before the end of the first.
C8_Witness ==
  /\ lastPlay.sess # NoSession
  /\ lastPlay.prevEnd > clock[lastPlay.sess]

\* C9: playAudio starts the buffer at max(now, cursor), with the cursor as it
\* was before the call, and leaves the cursor at that start plus the duration.
C9_StartAtMaxNowCursor ==
  [][ DecodeDone =>
        LET m     == Head(decodeQ)
            start == Max(clock[m.sess], nextStartTimeRef)
        IN  /\ lastPlay'.start = start
            /\ nextStartTimeRef' = start + m.duration
            /\ [sess |-> m.sess, start |-> start, end |-> start + m.duration]
                 \in sourcesRef' ]_vars

\* A buffer was started at a clock reading beyond the cursor.
C9_Witness ==
  /\ lastPlay.sess # NoSession
  /\ lastPlay.start = clock[lastPlay.sess]
  /\ lastPlay.start > lastPlay.prevEnd
  /\ nextStartTimeRef = lastPlay.start + lastPlay.duration

\* C10: a chunk played when the clock has passed the cursor starts exactly at
\* now; a chunk played before the clock reaches the cursor starts exactly
\* where the previously scheduled buffer ends, so the span of the two buffers
\* equals the sum of their durations.
C10_NowOrZeroGap ==
  [][ DecodeDone =>
        LET m   == Head(decodeQ)
            now == clock[m.sess]
        IN  /\ now > nextStartTimeRef => lastPlay'.start = now
            /\ (now < nextStartTimeRef /\ lastPlay.sess # NoSession)
                 => /\ lastPlay'.start = lastPlay.start + lastPlay.duration
                    /\ nextStartTimeRef' - lastPlay.start
                         = lastPlay.duration + m.duration ]_vars

\* Two chunks of one session were played back-to-back with zero gap.
C10_Witness ==
  /\ lastPlay.sess # NoSession
  /\ lastPlay.prevEnd > 0
  /\ lastPlay.start = lastPlay.prevEnd
  /\ clock[lastPlay.sess] < lastPlay.start

\* C11: in whatever state stopSession runs, every source still in the active
\* source set is stopped and the set is empty when stopSession returns.
C11_StopClearsSources == StopSession(Cur).sourcesRef = {}

\* C12: a step that runs stopSession (a start, a restart or a close) leaves
\* the playback cursor at zero, and the first chunk of a session that has not
\* been stopped starts at the current time of that session's output context.
C12_CursorResetOnStop ==
  [][ /\ (nSess' # nSess \/ active' # active) => nextStartTimeRef' = 0
      /\ DecodeDone =>
           LET m == Head(decodeQ)
           IN  (lastEnd[m.sess] = 0 /\ ~stopped[m.sess])
                 => lastPlay'.start = clock[m.sess] ]_vars

\* C13: a frame queued on the session promise before stopSession is not sent
\* when the promise resolves after the stop: no frame captured before the stop
\* of its session is handed to sendRealtimeInput after that stop.
C13_QueuedFramesDiscardedAfterStop == lastSent.afterStop = FALSE

Ascending(q) == \A i \in 1..(Len(q) - 1) : q[i].seq < q[i + 1].seq

\* C14: frames are handed to a transport in the order they were captured,
\* those queued while the connection was being established included, and a
\* frame is written to a transport only by the capture callback of the session
\* that owns it.
C14_CaptureOrderSoleWriter ==
  [][ /\ \A s \in Sessions : Ascending(sendQ[s])
      /\ lastSent' # lastSent
           => /\ lastSent'.by = lastSent'.to
              /\ lastSent'.to = lastSent.to => lastSent'.seq > lastSent.seq ]_vars

\* C16: no buffer captured while the session is active and unmuted is
\* discarded, and when the connection of a session is established every frame
\* queued on its promise is handed to sendRealtimeInput.
C16_NoFrameDropped ==
  [][ /\ ~dropped'
      /\ \A s \in Sessions :
           (conn[s] = "connecting" /\ conn'[s] = "open" /\ sendQ[s] # << >>)
             => /\ sendQ'[s] = << >>
                /\ lastSent'.to = s
                /\ lastSent'.seq = sendQ[s][Len(sendQ[s])].seq ]_vars

\* C19: a frame handed to sendRealtimeInput after the connection is lost
\* leaves the status at "error".
C19_FailedSendSurfacesError ==
  [][ (lastSent' # lastSent /\ lastSent'.failed) => status' = "error" ]_vars

\* C15: playAudio runs for audio messages in the order of their receipt: the
\* message played is later than the one played before it and earlier than
\* every message whose decode is still awaited.
C15_PlaybackInReceiptOrder ==
  [][ DecodeDone =>
        /\ lastPlay'.id = Head(decodeQ).id
        /\ lastPlay'.id > lastPlay.id
        /\ \A i \in 1..Len(decodeQ') : decodeQ'[i].id > lastPlay'.id ]_vars

\* The first message has been played while the decode of the second, received
\* before that, was still awaited.
C15_Witness ==
  /\ lastPlay.id = 1
  /\ decodeQ # << >>
  /\ Head(decodeQ).id = 2

\* C20: a message with a malformed audio payload changes neither the playback
\* cursor nor the active source set, the awaited decodes, the status or the
\* connection, and a valid chunk received after it is scheduled as usual.
C20_MalformedChunkSkipped ==
  [][ /\ lastBad' # lastBad
           => /\ nextStartTimeRef' = nextStartTimeRef
              /\ sourcesRef' = sourcesRef
              /\ decodeQ' = decodeQ
              /\ status' = status
              /\ conn' = conn
      /\ (DecodeDone /\ Head(decodeQ).id > lastBad /\ lastBad > 0)
           => LET m     == Head(decodeQ)
                  start == Max(clock[m.sess], nextStartTimeRef)
              IN  /\ lastPlay'.id = m.id
                  /\ nextStartTimeRef' = start + m.duration
                  /\ [sess |-> m.sess, start |-> start,
                      end |-> start + m.duration] \in sourcesRef'
                  /\ status' = status ]_vars

\* A malformed message was skipped and a valid chunk received after it has
\* been scheduled, the session still connected.
C20_Witness ==
  /\ lastBad > 0
  /\ lastPlay.id > lastBad
  /\ status = "connected"
  /\ nextStartTimeRef > 0

\* C17: a failure while a session is starting leaves the status at "error":
\* the refusal or unavailability of the microphone, and the failure of the
\* transport connection to be established.
C17_StartFailureIsError ==
  [][ \A s \in Sessions :
        /\ (pc[s] = "awaitMic" /\ pc'[s] = "failed") => status' = "error"
        /\ (conn[s] = "connecting" /\ conn'[s] = "failed")
             => status' = "error" ]_vars

\* One session failed for want of the microphone, and the session started
\* after it failed to establish its connection.
C17_Witness ==
  /\ pc[1] = "failed"
  /\ conn[MaxSessions] = "failed"
  /\ status = "error"

\* C18: when the connection of the active session is lost, by a close event
\* or by an error event, the status becomes "error".
C18_TransportLossIsError ==
  [][ \A s \in Sessions :
        (active /\ s = sessionRef /\ conn[s] = "open" /\ conn'[s] = "closed")
          => status' = "error" ]_vars

\* C21: a connection is opened only by a startSession that resumes after the
\* microphone grant, once for each, and a connection that failed or closed
\* is never opened again: the transport does not reconnect on its own.
C21_NoAutomaticReconnect ==
  [][ \A s \in Sessions :
        /\ (pc[s] = "awaitMic" /\ pc'[s] = "started")
             => (conn[s] = "none" /\ conn'[s] = "connecting")
        /\ conn'[s] # conn[s]
             => \/ /\ conn[s] = "none" /\ conn'[s] = "connecting"
                   /\ pc[s] = "awaitMic" /\ pc'[s] = "started"
                \/ conn[s] = "connecting" /\ conn'[s] \in {"open", "failed"}
                \/ conn[s] = "open" /\ conn'[s] = "closed" ]_vars

\* The first session lost its connection after it had opened, and only the
\* session the controller started after that holds a connection again.
C21_Witness ==
  /\ conn[1] = "closed"
  /\ nSess = MaxSessions
  /\ conn[MaxSessions] = "connecting"
  /\ status = "connecting"

\* C22: a change of mode while the session is active stops the old session
\* and starts a new one in the same step, the mode of no existing connection
\* is ever changed, and the connection the new session opens carries the new
\* mode.
C22_ModeChangeRestarts ==
  [][ /\ (active /\ active' /\ mode' # mode)
           => /\ nSess' = nSess + 1
              /\ \A s \in 1..nSess : stopped'[s]
              /\ sessionRef' = NoSession /\ streamRef' = NoSession
              /\ pc'[nSess'] = "awaitMic"
              /\ capMode'[nSess'] = mode'
      /\ \A s \in Sessions :
           /\ connMode[s] # NoMode => connMode'[s] = connMode[s]
           /\ (conn[s] = "none" /\ conn'[s] = "connecting")
                => connMode'[s] = capMode[s] ]_vars

\* The mode was changed while a session was active, and the session started
\* by the change holds an open connection in the new mode, next to the old
\* session's connection in the old mode.
C22_Witness ==
  /\ active /\ nSess = 2 /\ stopped[1]
  /\ connMode[1] = "Collaborative"
  /\ mode = "Competitive" /\ connMode[2] = "Competitive"
  /\ conn[2] = "open"

\* C23: stopSession is idempotent: in every state, running it twice leaves
\* the state that running it once leaves, and before any session was started
\* it changes nothing.
C23_StopIdempotent ==
  /\ StopSession(StopSession(Cur)) = StopSession(Cur)
  /\ nSess = 0 => StopSession(Cur) = Cur

\* A session holds its stream, its processing graph, its output context and
\* a pending redraw, so that the first stopSession releases all four.
C23_Witness ==
  /\ streamRef # NoSession /\ inputNodeRef # NoSession
  /\ audioContextRef # NoSession /\ sessionRef # NoSession
  /\ animationFrameRef \in rafLoops
  /\ status = "connected" /\ voiceState # "idle"
  /\ StopSession(Cur) # Cur

\* C24: whatever the activity state was, a redraw with the mean energies o
\* of the output tap and i of the input tap leaves Speaking when o > 10, or
\* else Listening when i > 10, or else Idle; in particular 8 and 20 give
\* Listening, 15 and 0 give Speaking.
C24_ActivityFromEnergiesAlone ==
  /\ \A o \in Means, i \in Means :
       Activity(o, i) = IF o > 10 THEN "speaking"
                        ELSE IF i > 10 THEN "listening" ELSE "idle"
  /\ active =>
       \A l \in rafLoops :
         /\ \A o \in Energies, i \in Energies :
              RenderVisualizer(Cur, l, o, i).voiceState =
                IF o > 10 THEN "speaking"
                ELSE IF i > 10 THEN "listening" ELSE "idle"
         /\ RenderVisualizer(Cur, l, 8, 20).voiceState = "listening"
         /\ RenderVisualizer(Cur, l, 15, 0).voiceState = "speaking"
         /\ RenderVisualizer(Cur, l, 10, 10).voiceState = "idle"

\* A redraw left Speaking, audio is playing, and the next redraw is pending:
\* it can read an output mean between the two thresholds.
C24_Witness ==
  /\ active /\ voiceState = "speaking" /\ animationFrameRef \in rafLoops
  /\ 8 \in OutputEnergies(Cur) /\ 15 \in InputEnergies(Cur)

\* C25: the drawn dataset is the output tap's exactly when the output mean
\* is above 5, and the activity state a redraw leaves is the same function of
\* the two means for either choice.
C25_DominantTapOnlyDrawn ==
  /\ \A o \in Means, i \in Means :
       /\ ActiveData(o, i) = "output" <=> o > 5
       /\ ActiveData(o, i) = "input" <=> ~(o > 5)
       /\ \A o2 \in Means :
            (o > 10 <=> o2 > 10) => Activity(o, i) = Activity(o2, i)
  /\ active =>
       \A l \in rafLoops, o \in Energies, i \in Energies :
         RenderVisualizer(Cur, l, o, i).voiceState =
           IF o > 10 THEN "speaking"
           ELSE IF i > 10 THEN "listening" ELSE "idle"

\* A redraw left Listening while audio was playing: the output tap can be the
\* dominant one, above 5 and not above 10, with the input tap above 10.
C25_Witness ==
  /\ active /\ voiceState = "listening" /\ animationFrameRef \in rafLoops
  /\ 8 \in OutputEnergies(Cur) /\ 15 \in InputEnergies(Cur)
  /\ ActiveData(8, 15) = "output"

\* C26: a transcription delta of the source the transcript already has is
\* appended to its text, and a delta of the other source, or one that finds
\* no transcript, becomes the whole transcript; every change of the
\* transcript by a message is one of the two.
C26_TranscriptPerSource ==
  [][ /\ \A d \in Deltas :
           /\ HandleTranscript(Cur, d, NoText).transcript =
                IF transcript.source = "ai"
                THEN [source |-> "ai", text |-> transcript.text \o d]
                ELSE [source |-> "ai", text |-> d]
           /\ HandleTranscript(Cur, NoText, d).transcript =
                IF transcript.source = "user"
                THEN [source |-> "user", text |-> transcript.text \o d]
                ELSE [source |-> "user", text |-> d]
      /\ nTimer' # nTimer =>
           \E src \in Sources, d \in Deltas :
             transcript' =
               IF transcript.source = src
               THEN [source |-> src, text |-> transcript.text \o d]
               ELSE [source |-> src, text |-> d] ]_vars

\* Two deltas of the user were put together, and a delta of the other source
\* can arrive.
C26_Witness ==
  /\ transcript.source = "user" /\ transcript.text = <<"a", "b">>
  /\ \E s \in Sessions : conn[s] = "open"

\* C27: at most one timer of the transcript is pending, and one is pending
\* whenever there is a transcript; a delta cancels the timer before it and
\* sets a new one; and a timer that goes without a new one being set, by
\* expiry or by stopSession, leaves no transcript.
C27_InactivityClearsTranscript ==
  [][ /\ Cardinality(timers') <= 1
      /\ transcript' # NoTranscript => timers' = {transcriptTimeoutRef'}
      /\ nTimer' # nTimer =>
           /\ transcriptTimeoutRef' \notin timers
           /\ timers \cap timers' = {}
           /\ transcript' # NoTranscript
      /\ (timers # {} /\ timers' = {}) => transcript' = NoTranscript ]_vars

\* The timer of the first delta was cancelled by the second, and the timer of
\* the second has expired and emptied the transcript.
C27_Witness ==
  /\ nTimer = 2 /\ timers = {} /\ transcript = NoTranscript
  /\ transcriptTimeoutRef = 2 /\ active /\ status = "connected"

\* C28: a sample in [-1,1] that went through createPcmBlob and decodeAudioData
\* differs from what it was by at most 1/32768.
C28_RoundTripWithinOneStep ==
  cpc = "decoded" =>
    \A i \in 1..Len(data) :
      (-SampleGrid <= data[i] /\ data[i] <= SampleGrid)
        => LET step == SampleGrid \div DecodeScale
               diff == data[i] - (float32[i] * step)
           IN  -step <= diff /\ diff <= step

\* C29: createPcmBlob makes of every sample the integer part of the clamped
\* sample times 32768 when it is negative and times 32767 when it is not;
\* that integer lies in -32768..32767 and is stored as it is; -1 gives
\* -32768, 1 gives 32767 and 0 gives 0.
C29_EncodeClampsAndScales ==
  cpc # "idle" /\ data # << >> =>
    /\ Len(raw) = 2 * Len(data)
    /\ \A i \in 1..Len(data) :
         LET x == data[i]
             s == IF x > SampleGrid THEN SampleGrid
                  ELSE IF x < -SampleGrid THEN -SampleGrid ELSE x
             scaled == IF s < 0 THEN Truncate(s * 32768, SampleGrid)
                       ELSE Truncate(s * 32767, SampleGrid)
             pcm == Int16View(raw)[i]
         IN  /\ -32768 <= scaled /\ scaled <= 32767
             /\ pcm = scaled
             /\ x <= -SampleGrid => pcm = -32768
             /\ x >= SampleGrid => pcm = 32767
             /\ x = 0 => pcm = 0

\* A buffer with a sample beyond 1 and a sample beyond -1 was encoded.
C29_Witness ==
  /\ cpc = "encoded"
  /\ data = << 2 * SampleGrid, -SampleGrid - 1 >>
  /\ Int16View(raw) = << 32767, -32768 >>

\* C30: the bytes base64ToUint8Array makes of the text uint8ArrayToBase64
\* made of an array of bytes are those bytes, as many and each the same.
C30_Base64RoundTrip ==
  cpc \in {"received", "decoded"} =>
    /\ Len(bytes) = Len(raw)
    /\ \A i \in 1..Len(raw) : bytes[i] = raw[i]

\* An array of three bytes with the high bit set in two of them came back
\* from a text without padding.
C30_Witness ==
  /\ cpc = "received" /\ raw = << 255, 0, 128 >> /\ bytes = raw
  /\ blob = << "/", "w", "C", "A" >>

\* C31: the active source set holds only buffers of the current session,
\* each scheduled by playAudio of that session and not yet ended: no source
\* of a session that stopSession has stopped is in the set.
C31_SourcesOfCurrentSession ==
  \A src \in sourcesRef : ~stopped[src.sess]

\* C32: a handleGenerate call that ends, with a result or with a failure of
\* the file conversion or of the remote call, leaves isGenerating false; a
\* call that fails leaves the history and the stored entry as they were,
\* makes no creation the active one and shows one retry prompt; a call that
\* does not fail shows none.
C32_GenerateAlwaysSettles ==
  [][ \A c \in Calls :
        /\ (genPc[c] \in {"file", "remote"} /\ genPc'[c] \in {"done", "failed"})
             => ~isGenerating'
        /\ (genPc[c] # "failed" /\ genPc'[c] = "failed")
             => /\ history' = history /\ stored' = stored
                /\ activeCreation' = activeCreation
                /\ alerts' = alerts + 1
        /\ (genPc[c] # "done" /\ genPc'[c] = "done") => alerts' = alerts ]_vars

\* Every call has failed, in the file conversion or in the remote call: a
\* prompt for each, nothing generating, nothing active and no history.
C32_Witness ==
  /\ genPc = [c \in Calls |-> "failed"] /\ alerts = MaxCalls
  /\ ~isGenerating /\ activeCreation = 0 /\ history = << >>

\* C33: a step that changes the history leaves the stored entry equal to the
\* history when its save succeeds and as it was when its save fails, the
\* history being the new one in both cases; the mount with no entry or with
\* an entry that cannot be read leaves the history empty and the entry
\* untouched; and no save for an empty history touches the entry, so the
\* mount never replaces a stored list by the empty one.
C33_HistoryPersistence ==
  [][ /\ history' # history
           => IF lastSave' = "ok"
              THEN stored'.kind = "list" /\ Revive(stored'.items) = history'
              ELSE stored' = stored
      /\ \A c \in Calls :
           (genPc[c] = "remote" /\ genPc'[c] = "done" /\ activeCreation' = c)
             => history' = << Creation(c) >> \o history
      /\ (~mounted /\ mounted')
           => /\ stored.kind # "list" => (history' = << >> /\ stored' = stored)
              /\ stored.kind = "list"
                   => /\ history' = Revive(stored.items)
                      /\ stored' = stored
      /\ history = << >> =>
           \A ok \in BOOLEAN : SaveEffect(AppCur, ok).stored = stored ]_vars

\* The mount loaded the creation of an earlier run, a generation put a new
\* one before it, and the save of the new history failed: the entry still
\* holds the list of the earlier run.
C33_Witness ==
  /\ mounted /\ Len(history) = 2 /\ history[2] = Creation(0)
  /\ lastSave = "failed"
  /\ stored = [kind |-> "list", items |-> Stringify(<< Creation(0) >>)]

\* C34: status is "connected" only while the session of the most recent
\* startSession is not stopped and its connection is open.
C34_StatusOfCurrentSession ==
  status = "connected" =>
    /\ nSess > 0 /\ ~stopped[nSess]
    /\ conn[nSess] = "open"

\* C35: at most one redraw frame is pending at any time, and it is the one
\* animationFrameRef holds.
C35_SingleRedrawLoop ==
  /\ Cardinality(rafLoops) <= 1
  /\ rafLoops \subseteq {animationFrameRef}

\* C36: a connection is opened for a start only in the step in which its
\* microphone was granted; a start whose microphone was refused has no
\* connection, no stream, no input context and no capture graph, and no
\* frame was queued for it or sent by it or to it.
C36_ConnectOnlyAfterMic ==
  [][ \A s \in Sessions :
        /\ (conn[s] = "none" /\ conn'[s] # "none")
             => (pc[s] = "awaitMic" /\ pc'[s] = "started" /\ tracks'[s] = "live")
        /\ conn'[s] # "none" => tracks'[s] # "none"
        /\ pc'[s] = "failed"
             => /\ conn'[s] = "none" /\ tracks'[s] = "none"
                /\ inCtx'[s] = "none" /\ ~wired'[s]
                /\ sendQ'[s] = << >>
                /\ lastSent'.by # s /\ lastSent'.to # s ]_vars

\* The first start was refused the microphone; the second was granted it,
\* connected and has sent a frame.
C36_Witness ==
  /\ pc[1] = "failed" /\ conn[1] = "none"
  /\ pc[2] = "started" /\ conn[2] = "open"
  /\ lastSent.by = 2 /\ lastSent.to = 2

\* C37: while the component is not active, that is after the stopSession of
\* a close and before the next start, status is "connecting", the activity
\* state is idle, there is no transcript and no timer of it is pending.
C37_InitialStateAfterStop ==
  ~active =>
    /\ status = "connecting" /\ voiceState = "idle"
    /\ transcript = NoTranscript /\ timers = {}

\* C38: a step that changes the mute flag changes nothing else: not status,
\* the connections, the capture graph, the cursor, the active source set or
\* the transcript, and no session is stopped or started.
C38_MuteChangesOnlyMute ==
  [][ isMuted' # isMuted =>
        /\ UNCHANGED << active, mode, status, voiceState, nSess, pc, capMuted,
                        outCtx, inCtx, tracks, wired, conn, audioContextRef,
                        inputNodeRef, streamRef, sessionRef, animationFrameRef,
                        inputAnalyserRef, outputAnalyserRef, rafLoops, clock,
                        nextStartTimeRef, sourcesRef, decodeQ, sendQ, stopped,
                        capMode, connMode, transcript, transcriptTimeoutRef,
                        timers >>
        /\ HandleToggleMute(Cur) = [ Cur EXCEPT !.isMuted = ~isMuted ] ]_vars

\* Mute was toggled in a connected session with a source scheduled, the
\* cursor advanced and a transcript shown, and all of them are still there.
C38_Witness ==
  /\ isMuted /\ status = "connected" /\ ~stopped[1] /\ conn[1] = "open"
  /\ wired[1] /\ tracks[1] = "live"
  /\ sourcesRef # {} /\ nextStartTimeRef > 0
  /\ transcript # NoTranscript /\ timers # {}

\* C39: a message with both transcriptions does to the transcript what the
\* same message without its input transcription does, and a message with
\* neither changes nothing.
C39_OutputDeltaWins ==
  /\ \A o \in Deltas, i \in Deltas :
       /\ HandleTranscript(Cur, o, i) = HandleTranscript(Cur, o, NoText)
       /\ HandleTranscript(Cur, o, i).transcript.source = "ai"
       /\ HandleTranscript(Cur, o, i).transcript.text =
            (IF transcript.source = "ai" THEN transcript.text ELSE NoText) \o o
  /\ HandleTranscript(Cur, NoText, NoText) = Cur

\* A transcript of the user is shown on an open connection: a message with
\* both transcriptions would replace it by the output delta alone.
C39_Witness ==
  /\ transcript.source = "user" /\ transcript.text # NoText
  /\ timers # {} /\ nTimer < MaxDeltas
  /\ \E s \in Sessions : conn[s] = "open" /\ ~stopped[s]

====
